---- MODULE Spec2Model ----
(***************************************************************************)
(* Statement splitter of the parser_tools DuckDB extension                 *)
(* (src/src/parse_statements.cpp) and the extension's load entry point     *)
(* (src/src/parser_tools_extension.cpp).                                   *)
(*                                                                         *)
(* SQL text is a sequence of characters over Alphabet.  "a" and "b" are    *)
(* two different statement bodies and ";" is the statement terminator.     *)
(* The parser (duckdb::Parser, an external collaborator) splits the text   *)
(* at terminators, skips empty pieces and reports a syntax error when two  *)
(* statement bodies follow each other without a terminator.                *)
(***************************************************************************)
EXTENDS Integers, Sequences, FiniteSets, TLC

\* ------------------------------------------------------------------ bounds
MaxSqlLen == 3
MaxPulls == 4
MaxBatch == 2
InitialCapacity == 2

Alphabet == {"a", "b", ";"}
SqlTexts == UNION {[1..n -> Alphabet] : n \in 0..MaxSqlLen}
Requests == {"r1", "r2"}
Null == "null"

\* ------------------------------------------------- the parser collaborator
\* One parsed statement tree (unique_ptr<SQLStatement>); the parser never
\* leaves a null pointer in Parser::statements.
NullStmt == [node |-> "nullptr"]

RECURSIVE ParseFrom(_, _, _, _)
ParseFrom(sql, i, cur, acc) ==
    IF i > Len(sql)
    THEN [error |-> FALSE,
          statements |-> IF cur = Null THEN acc ELSE Append(acc, [node |-> cur])]
    ELSE IF sql[i] = ";"
         THEN ParseFrom(sql, i + 1, Null,
                        IF cur = Null THEN acc ELSE Append(acc, [node |-> cur]))
         ELSE IF cur # Null
              THEN [error |-> TRUE, statements |-> <<>>]
              ELSE ParseFrom(sql, i + 1, sql[i], acc)

\* Parser::ParseQuery: either throws ParserException (error) or fills
\* Parser::statements.
ParseQuery(sql) == ParseFrom(sql, 1, Null, <<>>)

\* SQLStatement::ToString: the statement re-serialized, without terminator.
StmtToString(stmt) == <<stmt.node>>

\* --------------------------------------------------------------- extraction
RECURSIVE PushStatements(_, _, _)
PushStatements(statements, i, results) ==
    IF i > Len(statements)
    THEN results
    ELSE PushStatements(statements, i + 1,
             IF statements[i] # NullStmt
             THEN Append(results, [statement |-> StmtToString(statements[i])])
             ELSE results)

\* A variant that records the offending text instead of swallowing the
\* parser exception.
ExtractKeepsError(sql, results) ==
    LET parser == ParseQuery(sql)
    IN  IF parser.error
        THEN Append(results, [statement |-> sql])
        ELSE PushStatements(parser.statements, 1, results)

\* A variant that loses the last statement of a script.
ExtractDropsLast(sql, results) ==
    LET parser == ParseQuery(sql)
    IN  IF parser.error
        THEN results
        ELSE PushStatements(SubSeq(parser.statements, 1, Len(parser.statements) - 1),
                            1, results)

ExtractStatementsFromSQL(sql, results) ==
    LET parser == ParseQuery(sql)
    IN  IF parser.error
        THEN results
        ELSE PushStatements(parser.statements, 1, results)

Reference(sql) == ExtractStatementsFromSQL(sql, <<>>)

\* ------------------------------------------------------------------- state
VARIABLES
    loaded,        \* ParserToolsExtension::Load has run
    registered,    \* functions registered with the ExtensionLoader
    phase,         \* per table-function request: "idle", "bound", "init"
    bind_data,     \* ParseStatementsBindData of each request
    global_state,  \* the ParseStatementsState object each request points to
    heap,          \* the ParseStatementsState objects, by identity
    output,        \* rows each request has emitted so far
    last,          \* outcome of each request's latest pull: "none", "row", "eos"
    pulls,         \* number of pulls made on each request
    extractCalls,  \* calls of ExtractStatementsFromSQL made for each request
    sform,         \* scalar function being executed: "idle", "list", "count"
    lastSql,       \* input of the latest row the scalar function processed
    vec,           \* result vector of the list form
    counts,        \* result vector of the count form
    remember,      \* whether the session keeps the record prev
    prev           \* the latest extraction whose result was handed back

loaderVars == <<loaded, registered>>
tableVars == <<phase, bind_data, global_state, heap, output, last, pulls, extractCalls>>
scalarVars == <<sform, lastSql, vec, counts>>
recordVars == <<remember, prev>>
vars == <<loaded, registered, phase, bind_data, global_state, heap, output, last,
          pulls, extractCalls, sform, lastSql, vec, counts, remember, prev>>

\* struct ParseStatementsState { idx_t row = 0; vector<StatementResult> results; }
NewState == [row |-> 0, results |-> <<>>]

Unset == <<"?">>
\* The LIST(VARCHAR) result vector as the executor hands it to the function.
EmptyVec == [entries |-> <<>>,
             child |-> [k \in 0..(InitialCapacity - 1) |-> Unset],
             size |-> 0,
             capacity |-> InitialCapacity]

NoPrev == [valid |-> FALSE, sql |-> <<>>, statements |-> <<>>]

\* The statements of the list entry the latest row got.
LastList(v) ==
    LET e == v.entries[Len(v.entries)]
    IN  [i \in 1..e.length |-> v.child[e.offset + i - 1]]

InitQueries ==
    /\ phase = [r \in Requests |-> "idle"]
    /\ bind_data = [r \in Requests |-> [sql |-> <<>>]]
    /\ global_state = [r \in Requests |-> Null]
    /\ heap = [o \in Requests |-> NewState]
    /\ output = [r \in Requests |-> <<>>]
    /\ last = [r \in Requests |-> "none"]
    /\ pulls = [r \in Requests |-> 0]
    /\ extractCalls = [r \in Requests |-> 0]
    /\ sform = "idle"
    /\ lastSql = <<>>
    /\ vec = EmptyVec
    /\ counts = <<>>
    /\ prev = NoPrev

Init ==
    /\ loaded = FALSE
    /\ registered = {}
    /\ InitQueries
    /\ remember = FALSE

\* ------------------------------------------------------------------ loader
TableExtractors == {"RegisterParseTablesFunction", "RegisterParseTableScalarFunction"}
WhereExtractors == {"RegisterParseWhereFunction", "RegisterParseWhereScalarFunction",
                    "RegisterParseWhereDetailedFunction"}
FunctionExtractors == {"RegisterParseFunctionsFunction",
                       "RegisterParseFunctionScalarFunction"}
StatementTableFunction == "TableFunction parse_statements"
StatementListFunction == "ScalarFunction parse_statements"
StatementCountFunction == "ScalarFunction num_statements"

\* LoadInternal: the seven Register calls it makes.
LoadInternal ==
    /\ registered' = registered \cup TableExtractors \cup WhereExtractors
                                \cup FunctionExtractors
    /\ loaded' = TRUE

Load ==
    /\ ~loaded
    /\ LoadInternal
    /\ UNCHANGED <<tableVars, scalarVars, recordVars>>

\* The two exported registration functions of parse_statements.hpp; they need
\* the ExtensionLoader that exists once the extension is being loaded.
RegisterParseStatementsFunction ==
    /\ loaded
    /\ StatementTableFunction \notin registered
    /\ registered' = registered \cup {StatementTableFunction}
    /\ UNCHANGED <<loaded, tableVars, scalarVars, recordVars>>

RegisterParseStatementsScalarFunction ==
    /\ loaded
    /\ StatementListFunction \notin registered
    /\ registered' = registered \cup {StatementListFunction, StatementCountFunction}
    /\ UNCHANGED <<loaded, tableVars, scalarVars, recordVars>>

\* ------------------------------------------------------ row-producing form
ParseStatementsBind(r, sql_input) ==
    /\ StatementTableFunction \in registered
    /\ phase[r] = "idle"
    /\ phase' = [phase EXCEPT ![r] = "bound"]
    /\ bind_data' = [bind_data EXCEPT ![r] = [sql |-> sql_input]]
    /\ UNCHANGED <<global_state, heap, output, last, pulls, extractCalls>>
    /\ UNCHANGED <<loaderVars, scalarVars, recordVars>>

\* A variant in which every request gets the same state object.
SharedParseStatementsState(r) == "r1"

\* make_uniq<ParseStatementsState>(): a new object, named after its owner.
MakeUniqParseStatementsState(r) == r

ParseStatementsInit(r) ==
    /\ phase[r] = "bound"
    /\ LET obj == MakeUniqParseStatementsState(r)
       IN  /\ global_state' = [global_state EXCEPT ![r] = obj]
           /\ heap' = [heap EXCEPT ![obj] = NewState]
    /\ phase' = [phase EXCEPT ![r] = "init"]
    /\ UNCHANGED <<bind_data, output, last, pulls, extractCalls>>
    /\ UNCHANGED <<loaderVars, scalarVars, recordVars>>

\* A variant that extracts on every pull.
ExtractsOnEveryPull(state) == TRUE

\* if (state.results.empty() && state.row == 0)
NeedsExtraction(state) == state.results = <<>> /\ state.row = 0

\* One call of ParseStatementsFunction on a state object: the state it
\* leaves, the rows it puts into the output chunk and whether it extracted.
PullOnce(state, sql) ==
    LET extract == NeedsExtraction(state)
        results == IF extract
                   THEN ExtractStatementsFromSQL(sql, state.results)
                   ELSE state.results
    IN  IF state.row >= Len(results)
        THEN [state |-> [row |-> state.row, results |-> results],
              rows |-> <<>>, extracted |-> extract]
        ELSE [state |-> [row |-> state.row + 1, results |-> results],
              rows |-> <<results[state.row + 1].statement>>, extracted |-> extract]

ParseStatementsFunction(r) ==
    /\ phase[r] = "init"
    /\ pulls[r] < MaxPulls
    /\ LET obj == global_state[r]
           pull == PullOnce(heap[obj], bind_data[r].sql)
       IN  /\ heap' = [heap EXCEPT ![obj] = pull.state]
           /\ output' = [output EXCEPT ![r] = @ \o pull.rows]
           /\ last' = [last EXCEPT ![r] = IF pull.rows = <<>> THEN "eos" ELSE "row"]
           /\ extractCalls' = [extractCalls EXCEPT
                                  ![r] = @ + (IF pull.extracted THEN 1 ELSE 0)]
    /\ pulls' = [pulls EXCEPT ![r] = @ + 1]
    /\ UNCHANGED <<phase, bind_data, global_state>>
    /\ UNCHANGED <<loaderVars, scalarVars, recordVars>>

\* The host drops the request: its bind data and state object are destroyed.
EndRequest(r) ==
    /\ phase[r] # "idle"
    /\ phase' = [phase EXCEPT ![r] = "idle"]
    /\ bind_data' = [bind_data EXCEPT ![r] = [sql |-> <<>>]]
    /\ global_state' = [global_state EXCEPT ![r] = Null]
    /\ heap' = IF global_state[r] = Null THEN heap
               ELSE [heap EXCEPT ![global_state[r]] = NewState]
    /\ output' = [output EXCEPT ![r] = <<>>]
    /\ last' = [last EXCEPT ![r] = "none"]
    /\ pulls' = [pulls EXCEPT ![r] = 0]
    /\ extractCalls' = [extractCalls EXCEPT ![r] = 0]
    /\ prev' = IF remember /\ last[r] = "eos"
               THEN [valid |-> TRUE, sql |-> bind_data[r].sql, statements |-> output[r]]
               ELSE prev
    /\ UNCHANGED <<loaderVars, scalarVars, remember>>

\* ----------------------------------------------------------- bulk list form
RECURSIVE NextPowerOfTwo(_, _)
NextPowerOfTwo(v, p) == IF p >= v THEN p ELSE NextPowerOfTwo(v, 2 * p)

\* ListVector::Reserve(result, new_size): the child buffer grows to the next
\* power of two that holds new_size entries; what was written stays.
Reserve(v, required_capacity) ==
    IF required_capacity > v.capacity
    THEN LET cap == NextPowerOfTwo(required_capacity, 1)
         IN  [v EXCEPT !.capacity = cap,
                       !.child = [k \in 0..(cap - 1) |->
                                     IF k < v.capacity THEN v.child[k] ELSE Unset]]
    ELSE v

\* A variant whose vector of parsed statements is a static local: it still
\* holds what the earlier rows of the batch pushed.
StaticParsedStatements ==
    [i \in 1..vec.size |-> [statement |-> vec.child[i - 1]]]

\* std::vector<StatementResult> parsed_statements; a new, empty local vector.
LocalParsedStatements == <<>>

\* A variant that writes each row's statements from the start of the child.
WriteStatementsAtStart(child, current_size, parsed_statements) ==
    [k \in DOMAIN child |->
        IF k < Len(parsed_statements)
        THEN parsed_statements[k + 1].statement
        ELSE child[k]]

\* statements[current_size + i] = AddStringOrBlob(..., stmt.statement)
WriteStatements(child, current_size, parsed_statements) ==
    [k \in DOMAIN child |->
        IF k >= current_size /\ k < current_size + Len(parsed_statements)
        THEN parsed_statements[k - current_size + 1].statement
        ELSE child[k]]

\* The lambda of ParseStatementsScalarFunction applied to one input row:
\* the list entry it returns and the result vector it leaves.
ParseStatementsLambda(query, result) ==
    LET parsed_statements == ExtractStatementsFromSQL(query, LocalParsedStatements)
        current_size == result.size
        number_of_statements == Len(parsed_statements)
        new_size == current_size + number_of_statements
        reserved == IF result.capacity < new_size THEN Reserve(result, new_size)
                    ELSE result
        entry == [offset |-> current_size, length |-> number_of_statements]
    IN  [reserved EXCEPT
            !.child = WriteStatements(reserved.child, current_size, parsed_statements),
            !.size = new_size,
            !.entries = Append(result.entries, entry)]

\* A variant that counts the terminated statements only.
CountsTerminators(query) ==
    Len(SelectSeq(query, LAMBDA c : c = ";"))

\* The lambda of NumStatementsScalarFunction applied to one input row.
NumStatementsLambda(query) ==
    Len(ExtractStatementsFromSQL(query, <<>>))

\* The executor starts a scalar function on a batch with a new result vector.
ExecuteBegin(form) ==
    /\ form = "list" => StatementListFunction \in registered
    /\ form = "count" => StatementCountFunction \in registered
    /\ sform = "idle"
    /\ sform' = form
    /\ vec' = EmptyVec
    /\ counts' = <<>>
    /\ lastSql' = <<>>
    /\ UNCHANGED <<loaderVars, tableVars, recordVars>>

\* UnaryExecutor::Execute calls the lambda once per input row, in row order.
ParseStatementsScalarFunction(query) ==
    /\ sform = "list"
    /\ Len(vec.entries) < MaxBatch
    /\ vec' = ParseStatementsLambda(query, vec)
    /\ lastSql' = query
    /\ prev' = IF remember /\ vec.entries # <<>>
               THEN [valid |-> TRUE, sql |-> lastSql, statements |-> LastList(vec)]
               ELSE prev
    /\ UNCHANGED <<sform, counts, remember>>
    /\ UNCHANGED <<loaderVars, tableVars>>

NumStatementsScalarFunction(query) ==
    /\ sform = "count"
    /\ Len(counts) < MaxBatch
    /\ counts' = Append(counts, NumStatementsLambda(query))
    /\ lastSql' = query
    /\ UNCHANGED <<sform, vec>>
    /\ UNCHANGED <<loaderVars, tableVars, recordVars>>

\* The executor returns the batch; the host takes the result vector.
ExecuteEnd ==
    /\ sform # "idle"
    /\ sform' = "idle"
    /\ vec' = EmptyVec
    /\ counts' = <<>>
    /\ lastSql' = <<>>
    /\ prev' = IF remember /\ sform = "list" /\ vec.entries # <<>>
               THEN [valid |-> TRUE, sql |-> lastSql, statements |-> LastList(vec)]
               ELSE prev
    /\ UNCHANGED <<loaderVars, tableVars, remember>>

\* --------------------------------------------------------- specifications
\* One host thread runs one query at a time.
NoOtherQuery == sform = "idle" /\ \A r \in Requests : phase[r] = "idle"

Next ==
    \/ Load
    \/ RegisterParseStatementsFunction
    \/ RegisterParseStatementsScalarFunction
    \/ \E r \in Requests, sql \in SqlTexts : NoOtherQuery /\ ParseStatementsBind(r, sql)
    \/ \E r \in Requests : ParseStatementsInit(r)
    \/ \E r \in Requests : ParseStatementsFunction(r)
    \/ \E r \in Requests : EndRequest(r)
    \/ \E form \in {"list", "count"} : NoOtherQuery /\ ExecuteBegin(form)
    \/ \E sql \in SqlTexts : ParseStatementsScalarFunction(sql)
    \/ \E sql \in SqlTexts : NumStatementsScalarFunction(sql)
    \/ ExecuteEnd

Spec == Init /\ [][Next]_vars

\* Several table-function requests run at once; their pulls interleave.
NextConcurrent ==
    \/ Load
    \/ RegisterParseStatementsFunction
    \/ \E r \in Requests, sql \in SqlTexts : ParseStatementsBind(r, sql)
    \/ \E r \in Requests : ParseStatementsInit(r)
    \/ \E r \in Requests : ParseStatementsFunction(r)
    \/ \E r \in Requests : EndRequest(r)

SpecConcurrent == Init /\ [][NextConcurrent]_vars

\* The one-query-at-a-time session once the host has loaded the extension and
\* called both registration functions, keeping the record of the latest
\* extraction that was handed back.
InitRepeat ==
    /\ loaded = TRUE
    /\ registered = TableExtractors \cup WhereExtractors \cup FunctionExtractors
                     \cup {StatementTableFunction, StatementListFunction,
                           StatementCountFunction}
    /\ InitQueries
    /\ remember = TRUE

NextRepeat ==
    \/ \E r \in Requests, sql \in SqlTexts : NoOtherQuery /\ ParseStatementsBind(r, sql)
    \/ \E r \in Requests : ParseStatementsInit(r)
    \/ \E r \in Requests : ParseStatementsFunction(r)
    \/ \E r \in Requests : EndRequest(r)
    \/ \E form \in {"list", "count"} : NoOtherQuery /\ ExecuteBegin(form)
    \/ \E sql \in SqlTexts : ParseStatementsScalarFunction(sql)
    \/ \E sql \in SqlTexts : NumStatementsScalarFunction(sql)
    \/ ExecuteEnd

SpecRepeat == InitRepeat /\ [][NextRepeat]_vars

\* -------------------------------------------------------------- properties
Statements(results) == [i \in 1..Len(results) |-> results[i].statement]
SyntaxError(sql) == ParseQuery(sql).error
Serialized(sql) ==
    [i \in 1..Len(ParseQuery(sql).statements) |->
        StmtToString(ParseQuery(sql).statements[i])]
StateOf(r) == heap[global_state[r]]
LastEntry(v) == v.entries[Len(v.entries)]
ChildResults(v) == [i \in 1..v.size |-> [statement |-> v.child[i - 1]]]
\* The list the bulk form returns for sql when sql is the only row.
BulkList(sql) == LastList(ParseStatementsLambda(sql, EmptyVec))

\* C1: when the parser reports a syntax error for sql, extraction produces
\* nothing and raises nothing: the results collection passed in is left as
\* it was, the row-producing form signals end-of-sequence on its first pull
\* without emitting a row, the list form returns an empty list and the count
\* form returns 0.
C1_SyntaxErrorYieldsNothing ==
    /\ \A r \in Requests :
          (phase[r] = "init" /\ pulls[r] > 0 /\ SyntaxError(bind_data[r].sql)) =>
              /\ StateOf(r).results = <<>>
              /\ output[r] = <<>>
              /\ last[r] = "eos"
    /\ (sform = "list" /\ vec.entries # <<>> /\ SyntaxError(lastSql)) =>
          /\ LastList(vec) = <<>>
          /\ vec.size = LastEntry(vec).offset
          /\ ExtractStatementsFromSQL(lastSql, ChildResults(vec)) = ChildResults(vec)
    /\ (sform = "count" /\ counts # <<>> /\ SyntaxError(lastSql)) =>
          counts[Len(counts)] = 0

C1_Witness ==
    \E r \in Requests :
        /\ phase[r] = "init"
        /\ SyntaxError(bind_data[r].sql)
        /\ pulls[r] = 1
        /\ last[r] = "eos"

\* C2: for sql the parser accepts, extraction returns one StatementResult per
\* statement of Parser::statements, in the parser's order, the i-th holding
\* the ToString of the i-th statement; none dropped, duplicated or reordered.
C2_OneResultPerStatement ==
    /\ \A r \in Requests :
          (phase[r] = "init" /\ extractCalls[r] > 0 /\ ~SyntaxError(bind_data[r].sql)) =>
              Statements(StateOf(r).results) = Serialized(bind_data[r].sql)
    /\ (sform = "list" /\ vec.entries # <<>> /\ ~SyntaxError(lastSql)) =>
          LastList(vec) = Serialized(lastSql)
    /\ (sform = "count" /\ counts # <<>> /\ ~SyntaxError(lastSql)) =>
          counts[Len(counts)] = Len(ParseQuery(lastSql).statements)

C2_Witness ==
    \E r \in Requests :
        /\ phase[r] = "init"
        /\ extractCalls[r] > 0
        /\ ~SyntaxError(bind_data[r].sql)
        /\ Len(StateOf(r).results) = 2
        /\ StateOf(r).results[1] # StateOf(r).results[2]

\* C3: in the row-producing form the extractor has run zero times before the
\* first pull and exactly once after any number of pulls, also for an input
\* whose result list is empty.
C3_ExtractedExactlyOnce ==
    \A r \in Requests :
        phase[r] = "init" =>
            extractCalls[r] = (IF pulls[r] = 0 THEN 0 ELSE 1)

\* C4: successive pulls on one request yield a finite, non-restartable
\* sequence: the cursor stays within 0..number of memoized results, the rows
\* emitted so far are the first `row` records of the list the bulk form
\* returns for the same sql and all of it at end-of-sequence; each pull emits
\* the record at the cursor and advances the cursor by one, or emits nothing
\* and leaves it; after end-of-sequence every pull is end-of-sequence.
C4_Cursor ==
    \A r \in Requests :
        phase[r] = "init" =>
            /\ StateOf(r).row >= 0
            /\ StateOf(r).row <= Len(StateOf(r).results)
            /\ Len(output[r]) = StateOf(r).row
            /\ StateOf(r).row <= Len(BulkList(bind_data[r].sql))
            /\ output[r] = SubSeq(BulkList(bind_data[r].sql), 1, StateOf(r).row)
            /\ last[r] = "eos" => output[r] = BulkList(bind_data[r].sql)

C4_Step ==
    \A r \in Requests :
        (phase[r] = "init" /\ phase'[r] = "init" /\ pulls'[r] = pulls[r] + 1) =>
            /\ \/ /\ last'[r] = "row"
                  /\ StateOf(r)'.row = StateOf(r).row + 1
                  /\ output'[r] =
                        Append(output[r], StateOf(r)'.results[StateOf(r).row + 1].statement)
               \/ /\ last'[r] = "eos"
                  /\ StateOf(r)'.row = StateOf(r).row
                  /\ output'[r] = output[r]
            /\ last[r] = "eos" => last'[r] = "eos"

C4_PullSequence == []C4_Cursor /\ [][C4_Step]_vars

C4_Witness ==
    \E r \in Requests :
        /\ phase[r] = "init"
        /\ Len(output[r]) = 2
        /\ last[r] = "eos"
        /\ pulls[r] = 4

\* C5: for every sql, well-formed or malformed, num_statements(sql) equals
\* the length of the list parse_statements(sql) returns.
C5_CountEqualsListLength ==
    /\ (sform = "count" /\ counts # <<>>) =>
          counts[Len(counts)] = Len(BulkList(lastSql))
    /\ (sform = "list" /\ vec.entries # <<>>) =>
          Len(LastList(vec)) = NumStatementsLambda(lastSql)

C5_Witness ==
    /\ sform = "count"
    /\ Len(counts) = 2
    /\ counts[1] = 0
    /\ counts[2] = 2

\* C7: extraction is idempotent and stateless across invocations: an
\* extraction of sql, in any form, yields the result collection the latest
\* earlier extraction of the same sql yielded, whatever ran in between.
C7_SameSqlSameResult ==
    prev.valid =>
        /\ \A r \in Requests :
              (phase[r] = "init" /\ last[r] = "eos" /\ bind_data[r].sql = prev.sql) =>
                  output[r] = prev.statements
        /\ (sform = "list" /\ vec.entries # <<>> /\ lastSql = prev.sql) =>
              LastList(vec) = prev.statements
        /\ (sform = "count" /\ counts # <<>> /\ lastSql = prev.sql) =>
              counts[Len(counts)] = Len(prev.statements)

C7_Witness ==
    /\ prev.valid
    /\ Len(prev.statements) = 2
    /\ sform = "list"
    /\ Len(vec.entries) = 1
    /\ Len(LastList(vec)) = 2
    /\ lastSql = prev.sql

\* What a request emits and the state it reaches when it runs alone: n pulls
\* on a state object no other request touches.
RECURSIVE RunAlone(_, _)
RunAlone(sql, n) ==
    IF n = 0
    THEN [state |-> NewState, output |-> <<>>]
    ELSE LET before == RunAlone(sql, n - 1)
             pull == PullOnce(before.state, sql)
         IN  [state |-> pull.state, output |-> before.output \o pull.rows]

\* C8: concurrent row-producing requests are independent: under every
\* interleaving of their pulls each request has emitted exactly the rows it
\* would have emitted alone, and no two requests share a state object.
C8_RequestsIndependent ==
    /\ \A r, s \in Requests :
          (r # s /\ phase[r] = "init" /\ phase[s] = "init") =>
              global_state[r] # global_state[s]
    /\ \A r \in Requests :
          phase[r] = "init" =>
              /\ output[r] = RunAlone(bind_data[r].sql, pulls[r]).output
              /\ StateOf(r) = RunAlone(bind_data[r].sql, pulls[r]).state

C8_Witness ==
    /\ \A r \in Requests : phase[r] = "init" /\ Len(output[r]) = 1 /\ last[r] = "row"
    /\ \A r \in Requests : Len(StateOf(r).results) = 2
    /\ output["r1"] # output["r2"]

RECURSIVE SumLengths(_, _)
SumLengths(entries, n) ==
    IF n = 0 THEN 0 ELSE entries[n].length + SumLengths(entries, n - 1)

\* C9: the list entries of a batch tile the child vector: each entry's offset
\* is the sum of the lengths of the entries before it, the child size is the
\* sum of all lengths and never exceeds the capacity, the child elements in
\* the latest entry's range are that row's statements in order (none, with
\* the size unchanged, for a malformed row), and processing a row leaves the
\* earlier entries and their child elements as they were.
C9_Tiling ==
    sform = "list" =>
        /\ \A i \in 1..Len(vec.entries) :
              vec.entries[i].offset = SumLengths(vec.entries, i - 1)
        /\ vec.size = SumLengths(vec.entries, Len(vec.entries))
        /\ vec.size <= vec.capacity
        /\ DOMAIN vec.child = 0..(vec.capacity - 1)
        /\ vec.entries # <<>> =>
              /\ LastEntry(vec).length = Len(Reference(lastSql))
              /\ LastList(vec) = Statements(Reference(lastSql))
              /\ SyntaxError(lastSql) =>
                    LastEntry(vec).length = 0 /\ vec.size = LastEntry(vec).offset

C9_Step ==
    (sform = "list" /\ sform' = "list" /\ Len(vec'.entries) = Len(vec.entries) + 1) =>
        /\ SubSeq(vec'.entries, 1, Len(vec.entries)) = vec.entries
        /\ LastEntry(vec').offset = vec.size
        /\ \A k \in 0..(vec.size - 1) : vec'.child[k] = vec.child[k]

C9_EntriesTileChild == []C9_Tiling /\ [][C9_Step]_vars

C9_Witness ==
    /\ sform = "list"
    /\ Len(vec.entries) = 2
    /\ vec.entries[1].length = 1
    /\ vec.entries[2].length = 2
    /\ vec.capacity > InitialCapacity

\* C10: once the load entry point has run, the table function
\* parse_statements, the scalar function parse_statements and num_statements
\* are registered, alongside the table, where and function extractors.
C10_StatementFunctionsRegistered ==
    loaded =>
        /\ TableExtractors \cup WhereExtractors \cup FunctionExtractors \subseteq registered
        /\ {StatementTableFunction, StatementListFunction, StatementCountFunction}
              \subseteq registered

====
